---- MODULE Spec2Model ----
(***************************************************************************)
(* Model of the cuboOLAP browser scripts:                                  *)
(*   src/actCubo/static/main.js, src/funciones/static/main.js and          *)
(*   src/unnamed/part_000.                                                 *)
(*                                                                         *)
(* The specifications share the variables:                                 *)
(*   SpecRender    applies one of the repository's renderTable functions   *)
(*                 once to a target element, from any prior content, over  *)
(*                 a bounded domain of arguments;                          *)
(*   SpecRerender  applies it repeatedly to the same target;               *)
(*   Spec          is the page: event handlers issue requests, the         *)
(*                 requests complete in any order, and the completions     *)
(*                 write the display regions;                              *)
(*   SpecSlice     is the slice section with every value of its selector;  *)
(*   SpecPivot     is the pivot section of actCubo, clicks that find no    *)
(*                 listener included;                                      *)
(*   SpecCubo      is the full-cube and cell buttons;                      *)
(*   FairSliceDice is the slice and dice sections with every request       *)
(*                 eventually completing.                                  *)
(*                                                                         *)
(* Conventions of the model.                                               *)
(*  - A JavaScript value is a record [t, m, s]: t is the result of typeof  *)
(*    (with "null" and "array" told apart), m a number in thousandths,     *)
(*    s a string.  The numbers of the model are multiples of 1/8 or of     *)
(*    1/10 with magnitude far below 1e21, for which toFixed(2) and         *)
(*    Number::toString are exactly the decimal operations written below.   *)
(*  - innerHTML is a sequence of tokens: the tags the code writes and the  *)
(*    interpolated texts, in the order of the string the code builds.  An  *)
(*    interpolated empty string contributes no token.  Texts carry no      *)
(*    markup of their own.                                                 *)
(***************************************************************************)
EXTENDS Integers, Sequences, FiniteSets, TLC

VARIABLES
    impl,       \* renderer: which renderTable is under test
    el,         \* renderer: innerHTML of the target element
    prior,      \* renderer: innerHTML of the target before the latest call
    call,       \* renderer: arguments of the latest renderTable call
    ncalls,     \* renderer: number of calls made so far
    script,     \* page: which script the page loaded
    loaded,     \* page: DOMContentLoaded has been dispatched
    dom,        \* page: innerHTML of every display region
    inputs,     \* page: values of the form controls of the slice section
    requests,   \* page: every request issued so far, in issue order
    last,       \* page: per region, the latest activity of its handlers
    cuboReady,  \* page: state of the /api/opciones load of the pivot section
    cuboClick   \* page: whether a click of #btn-cubo in actCubo found no listener

vars == <<impl, el, prior, call, ncalls, script, loaded, dom, inputs, requests,
          last, cuboReady, cuboClick>>

renderVars == <<impl, el, prior, call, ncalls>>
pageVars ==
    <<script, loaded, dom, inputs, requests, last, cuboReady, cuboClick>>

-----------------------------------------------------------------------------
(* Bounds *)

MaxCols == 2
MaxRows == 2
MaxCalls == 3
MaxRequests == 2

-----------------------------------------------------------------------------
(* JavaScript values *)

Num(m) == [t |-> "number", m |-> m, s |-> ""]
Str(s) == [t |-> "string", m |-> 0, s |-> s]
Null == [t |-> "null", m |-> 0, s |-> ""]
Undefined == [t |-> "undefined", m |-> 0, s |-> ""]
Arr(items) == [t |-> "array", items |-> items]

Abs(m) == IF m < 0 THEN -m ELSE m

Pad2(n) == IF n < 10 THEN "0" \o ToString(n) ELSE ToString(n)

Pad3(n) == IF n < 100 THEN "0" \o Pad2(n) ELSE ToString(n)

\* toFixed(2) that drops the leading zero of the hundredths.
ToFixed2MissingPad(m) ==
    LET n == (Abs(m) + 5) \div 10
    IN  (IF m < 0 THEN "-" ELSE "") \o ToString(n \div 100) \o "."
            \o ToString(n % 100)

\* Number.prototype.toFixed(2): the nearest hundredth, a tie to the larger
\* magnitude, the sign kept even when the digits are all zero.
ToFixed2(m) ==
    LET n == (Abs(m) + 5) \div 10
    IN  (IF m < 0 THEN "-" ELSE "") \o ToString(n \div 100) \o "."
            \o Pad2(n % 100)

\* Math.trunc: the fractional part dropped, toward zero.
MathTrunc(m) ==
    IF m < 0 THEN -((Abs(m) \div 1000) * 1000) ELSE (m \div 1000) * 1000

\* Number::toString, as a template literal applies it to a number.
NumberToString(m) ==
    LET a == Abs(m)
        f == a % 1000
        frac == IF f % 100 = 0 THEN ToString(f \div 100)
                ELSE IF f % 10 = 0 THEN Pad2(f \div 10)
                ELSE Pad3(f)
    IN  (IF m < 0 /\ a # 0 THEN "-" ELSE "") \o ToString(a \div 1000)
            \o (IF f = 0 THEN "" ELSE "." \o frac)

\* `${v}`: the string a template literal interpolates for v.
TemplateString(v) ==
    CASE v.t = "number" -> NumberToString(v.m)
      [] v.t = "string" -> v.s
      [] v.t = "null" -> "null"
      [] OTHER -> "undefined"

\* String.prototype.toLowerCase on the column names of the model.
ToLowerCase(c) ==
    CASE c = "Año" -> "año"
      [] c = "AÑO" -> "año"
      [] c = "Cantidad" -> "cantidad"
      [] c = "Trimestre" -> "trimestre"
      [] c = "TRIMESTRE" -> "trimestre"
      [] c = "Ventas" -> "ventas"
      [] c = "Producto" -> "producto"
      [] c = "Extra" -> "extra"
      [] OTHER -> c

\* row[c]: undefined when the record has no such key.
Get(row, c) == IF c \in DOMAIN row THEN row[c] ELSE Undefined

\* The guard without its length test.
NoRowsNullOnly(rows) == rows.t \in {"null", "undefined"}

\* !rows || rows.length === 0
NoRows(rows) ==
    \/ rows.t \in {"null", "undefined"}
    \/ rows.t = "array" /\ Len(rows.items) = 0

-----------------------------------------------------------------------------
(* Markup *)

Text(s) == IF s = "" THEN <<>> ELSE <<s>>

Em(text) == <<"<em>", text, "</em>">>

SinDatos == Em("Sin datos")

Blank == <<>>

RECURSIVE Concat(_)
Concat(ss) == IF ss = <<>> THEN <<>> ELSE Head(ss) \o Concat(Tail(ss))

\* The header built back to front.
HeaderCellsReversed(columns) ==
    Concat([i \in 1..Len(columns) |->
        <<"<th>">> \o Text(columns[Len(columns) + 1 - i]) \o <<"</th>">>])

\* for (const c of columns) thead += `<th>${c}</th>`
HeaderCells(columns) ==
    Concat([i \in 1..Len(columns) |->
        <<"<th>">> \o Text(columns[i]) \o <<"</th>">>])

-----------------------------------------------------------------------------
(* The renderTable functions of the repository *)

Impls == {"actCubo", "funciones", "funcionesFirst", "part000", "caraLocal"}

IntegerCols == {"año", "cantidad", "trimestre"}

CaraLocalCols == {"año", "cantidad"}

\* actCubo/static/main.js renderTable: the cell text of column c in row.
CellActCubo(c, row) ==
    LET v0 == Get(row, c)
        v == IF v0.t = "number"
             THEN IF ToLowerCase(c) \notin IntegerCols
                  THEN Str(ToFixed2(v0.m))
                  ELSE Num(MathTrunc(v0.m))
             ELSE v0
    IN  IF v.t \in {"null", "undefined"} THEN "" ELSE TemplateString(v)

\* funciones/static/main.js, the second (effective) renderTable.
CellFunciones(c, row) ==
    LET v0 == Get(row, c)
        v == IF v0.t = "number"
             THEN IF ToLowerCase(c) \notin IntegerCols
                  THEN Str(ToFixed2(v0.m))
                  ELSE Num(MathTrunc(v0.m))
             ELSE v0
    IN  IF v.t # "undefined" THEN TemplateString(v) ELSE ""

\* funciones/static/main.js, the first renderTable (no number formatting).
CellFuncionesFirst(c, row) ==
    LET v == Get(row, c)
    IN  IF v.t # "undefined" THEN TemplateString(v) ELSE ""

\* unnamed/part_000 renderTable: every number gets two decimals.
CellPart000(c, row) ==
    LET v0 == Get(row, c)
        v == IF v0.t = "number" THEN Str(ToFixed2(v0.m)) ELSE v0
    IN  IF v.t # "undefined" THEN TemplateString(v) ELSE ""

\* The renderTable local to the slice section of funciones and part_000.
CellCaraLocal(c, row) ==
    LET v0 == Get(row, c)
        v == IF v0.t = "number" /\ ToLowerCase(c) \notin CaraLocalCols
             THEN Str(ToFixed2(v0.m))
             ELSE v0
    IN  IF v.t # "undefined" THEN TemplateString(v) ELSE ""

Cell(i, c, row) ==
    CASE i = "actCubo" -> CellActCubo(c, row)
      [] i = "funciones" -> CellFunciones(c, row)
      [] i = "funcionesFirst" -> CellFuncionesFirst(c, row)
      [] i = "part000" -> CellPart000(c, row)
      [] OTHER -> CellCaraLocal(c, row)

\* A row built from the record's own keys instead of the declared columns.
BodyRowOwnKeys(i, columns, row) ==
    LET ks == SelectSeq(<<"Año", "TRIMESTRE", "Ventas", "Extra">>,
                        LAMBDA k : k \in DOMAIN row)
    IN  <<"<tr>">>
        \o Concat([k \in 1..Len(ks) |->
              <<"<td>">> \o Text(Cell(i, ks[k], row)) \o <<"</td>">>])
        \o <<"</tr>">>

\* tbody += "<tr>"; for (const c of columns) tbody += `<td>${...}</td>`;
\* tbody += "</tr>"
BodyRow(i, columns, row) ==
    <<"<tr>">>
    \o Concat([k \in 1..Len(columns) |->
          <<"<td>">> \o Text(Cell(i, columns[k], row)) \o <<"</td>">>])
    \o <<"</tr>">>

BodyRows(i, columns, rows) ==
    Concat([r \in 1..Len(rows) |-> BodyRow(i, columns, rows[r])])

TableMarkup(i, columns, rows) ==
    <<"<table>", "<thead>", "<tr>">> \o HeaderCells(columns)
    \o <<"</tr>", "</thead>", "<tbody>">> \o BodyRows(i, columns, rows)
    \o <<"</tbody>", "</table>">>

\* renderTable(target, columns, rows) of implementation i: what it assigns to
\* the target's innerHTML, or that it threw before assigning anything
\* (iterating columns that are not an array).
RenderTable(i, columns, rows) ==
    IF NoRows(rows) THEN [threw |-> FALSE, html |-> SinDatos]
    ELSE IF columns.t # "array" THEN [threw |-> TRUE, html |-> Blank]
    ELSE [threw |-> FALSE, html |-> TableMarkup(i, columns.items, rows.items)]

\* el.innerHTML += html
SetInnerHTMLAppend(old, html) == old \o html

\* el.innerHTML = html
SetInnerHTML(old, html) == html

-----------------------------------------------------------------------------
(* Arguments of the renderer specification *)

ColNames == {"Año", "TRIMESTRE", "Ventas"}

SeqsUpTo(S, n) == UNION {[1..k -> S] : k \in 0..n}

\* columns: an array of names, or undefined (a response without the field)
ColumnArgs == {Arr(cs) : cs \in SeqsUpTo(ColNames, MaxCols)} \cup {Undefined}

\* Row records as a response carries them: numbers, strings, null, keys
\* that are missing, keys that no column declares.
SampleRows ==
    { ("Año" :> Num(2024000)) @@ ("Ventas" :> Num(100500)),
      ("Año" :> Num(4900)) @@ ("TRIMESTRE" :> Num(-4900))
          @@ ("Ventas" :> Null),
      ("TRIMESTRE" :> Num(2000)) @@ ("Ventas" :> Num(3000))
          @@ ("Extra" :> Str("x")),
      ("Año" :> Num(2024000)) @@ ("TRIMESTRE" :> Str("T1"))
          @@ ("Ventas" :> Num(-125)) @@ ("Extra" :> Num(1000)) }

\* rows: an array of records, null, or undefined
RowArgs ==
    {Arr(rs) : rs \in SeqsUpTo(SampleRows, MaxRows)} \cup {Null, Undefined}

NoCall == [columns |-> Undefined, rows |-> Undefined]

\* The page variables, at rest while a renderer specification runs.
IdlePage ==
    /\ script = "actCubo"
    /\ loaded = FALSE
    /\ dom = <<>>
    /\ inputs = <<>>
    /\ requests = <<>>
    /\ last = <<>>
    /\ cuboReady = "idle"
    /\ cuboClick = "none"

\* What the target may show before a call: nothing, a placeholder, or the
\* table of an earlier response.
Cargando == Em("Cargando...")

StaleTable ==
    <<"<table>", "<thead>", "<tr>", "<th>", "Producto", "</th>", "</tr>",
      "</thead>", "<tbody>", "<tr>", "<td>", "Laptop", "</td>", "</tr>",
      "</tbody>", "</table>">>

PriorContents == {Blank, SinDatos, Cargando, StaleTable}

InitRender ==
    /\ impl \in Impls
    /\ el \in PriorContents
    /\ prior = Blank
    /\ call = NoCall
    /\ ncalls = 0
    /\ IdlePage

\* One call renderTable(target, columns, rows) of the implementation under
\* test.
Render(columns, rows) ==
    /\ LET r == RenderTable(impl, columns, rows)
       IN  el' = IF r.threw THEN el ELSE SetInnerHTML(el, r.html)
    /\ prior' = el
    /\ call' = [columns |-> columns, rows |-> rows]
    /\ ncalls' = ncalls + 1
    /\ UNCHANGED impl
    /\ UNCHANGED pageVars

\* A single call, from any prior content, over the whole argument domain.
NextRender ==
    /\ ncalls = 0
    /\ \E columns \in ColumnArgs, rows \in RowArgs : Render(columns, rows)

SpecRender == InitRender /\ [][NextRender]_vars

\* Sequences of calls on one target, over a few argument pairs: tables of
\* different shapes, empty and missing rows, and a response without columns.
RerenderArgs ==
    LET r1 == ("Año" :> Num(2024000)) @@ ("Ventas" :> Num(100500))
        r2 == ("Año" :> Num(4900)) @@ ("Ventas" :> Null)
    IN  { [columns |-> Arr(<<"Año", "Ventas">>), rows |-> Arr(<<r1>>)],
          [columns |-> Arr(<<"Año", "Ventas">>), rows |-> Arr(<<r1, r2>>)],
          [columns |-> Arr(<<"Ventas">>), rows |-> Arr(<<r2, r1>>)],
          [columns |-> Arr(<<"Año", "Ventas">>), rows |-> Arr(<<>>)],
          [columns |-> Undefined, rows |-> Undefined],
          [columns |-> Undefined, rows |-> Arr(<<r1>>)] }

InitRerender ==
    /\ impl \in Impls
    /\ el = Blank
    /\ prior = Blank
    /\ call = NoCall
    /\ ncalls = 0
    /\ IdlePage

NextRerender ==
    /\ ncalls < MaxCalls
    /\ \E a \in RerenderArgs : Render(a.columns, a.rows)

SpecRerender == InitRerender /\ [][NextRerender]_vars

-----------------------------------------------------------------------------
(* The page: handlers, requests, display regions *)

Scripts == {"actCubo", "funciones", "part000"}

Regions ==
    {"cara-resultado", "dice-resultado", "cubo-resultado", "celda-resultado",
     "seccion-resultado"}

\* The handlers that issue a request and write a display region.
\*   generarCara  slice section, all scripts (load, selector and metric change)
\*   generarDice  dice section, all scripts (btn-dice)
\*   generarCubo  pivot section of actCubo (btn-cubo)
\*   celda        cell drill-down, all scripts (btn-celda)
\*   caraClick    btn-cara of funciones
\*   seccion      btn-seccion of funciones
\*   cuboCompleto btn-cubo of funciones and part_000 (the full cube)
\* "opciones" is the load of the pivot selectors of actCubo; it has no region.
RegionOf(h) ==
    CASE h \in {"generarCara", "caraClick"} -> "cara-resultado"
      [] h = "generarDice" -> "dice-resultado"
      [] h \in {"generarCubo", "cuboCompleto"} -> "cubo-resultado"
      [] h = "celda" -> "celda-resultado"
      [] h = "seccion" -> "seccion-resultado"
      [] OTHER -> "none"

\* The handlers that show a loading placeholder before they fetch.
HasLoading(h) == h \in {"generarCara", "generarDice", "generarCubo"}

Loading(h) ==
    CASE h = "generarCara" -> Em("Cargando...")
      [] h = "generarDice" -> Em("Cargando sección del cubo...")
      [] OTHER -> Em("Cargando cubo...")

\* Only the slice handler catches.
CatchesSliceOnly(h) == h = "generarCara"

\* The handlers whose fetch and render sit inside try/catch.
Catches(h) == h \in {"generarCara", "generarDice"}

ErrorPlaceholder(s, h) ==
    IF h = "generarCara" /\ s = "actCubo" THEN Em("Error al cargar")
    ELSE Em("Error al cargar datos")

SinDatosFiltros == Em("Sin datos para los filtros seleccionados")

\* The renderTable a handler's call resolves to: the slice section of
\* funciones and part_000 declares its own; of the two top-level
\* declarations of funciones the later one is in effect.
GlobalImpl(s) ==
    CASE s = "actCubo" -> "actCubo"
      [] s = "funciones" -> "funciones"
      [] OTHER -> "part000"

ImplOf(s, h) ==
    IF h = "generarCara" /\ s # "actCubo" THEN "caraLocal" ELSE GlobalImpl(s)

\* What a request can come back with: the fetch rejects, the body is not
\* JSON, or a parsed body.
Failures == {"rejected", "badjson"}

PageResponses ==
    { [columns |-> Arr(<<"Año", "Ventas">>),
       data |-> Arr(<<("Año" :> Num(2024000)) @@ ("Ventas" :> Num(100500))>>)],
      [columns |-> Arr(<<"Producto">>), data |-> Arr(<<>>)] }

NoResponse == [columns |-> Undefined, data |-> Undefined]

\* A row record of a /api/cubo view: its keys in the order Object.keys
\* lists them, and the value of each.
CuboRow(keys, vals) == [keys |-> keys, vals |-> vals]

\* Parsed bodies of /api/cubo: the entries (view label, rows) of the mapping
\* in the order Object.entries lists them.
CuboResponses ==
    { [views |->
          << [label |-> "Ventas por año",
              rows |-> Arr(<<
                  CuboRow(<<"Año", "Ventas">>,
                          ("Año" :> Num(2024000)) @@ ("Ventas" :> Num(100500))),
                  CuboRow(<<"Año", "Canal">>,
                          ("Año" :> Num(2025000)) @@ ("Canal" :> Str("Web"))) >>)],
             [label |-> "Sin filas", rows |-> Arr(<<>>)],
             [label |-> "Nula", rows |-> Null] >>],
      [views |->
          << [label |-> "Nula", rows |-> Null],
             [label |-> "Por canal",
              rows |-> Arr(<<
                  CuboRow(<<"Ventas", "Canal">>,
                          ("Ventas" :> Num(3000)) @@ ("Canal" :> Str("Web"))) >>)],
             [label |-> "Por año",
              rows |-> Arr(<<
                  CuboRow(<<"Año">>, "Año" :> Num(2024000)) >>)] >>],
      [views |-> <<>>] }

ObjectKeys(row) == row.keys

\* The rows of a view as renderTable indexes them.
RowValues(rows) == Arr([k \in 1..Len(rows.items) |-> rows.items[k].vals])

\* The block the full-cube handler appends for one view: a title and a
\* wrapper holding the table; nothing for a view without rows.
CuboBlock(s, view) ==
    IF NoRows(view.rows) THEN <<>>
    ELSE <<"<div>", "<div>">> \o Text(view.label)
         \o <<"</div>", "<div id=\"tbl-" \o view.label \o "\">">>
         \o RenderTable(GlobalImpl(s),
                         Arr(ObjectKeys(view.rows.items[1])),
                         RowValues(view.rows)).html
         \o <<"</div>", "</div>">>

\* A full-cube handler that appends its blocks to what the region holds.
CuboCompletoKeepsOld(s, old, outcome, resp) ==
    IF outcome \in Failures
    THEN [html |-> old, rendered |-> FALSE]
    ELSE [html |-> old
                   \o Concat([k \in 1..Len(resp.views) |->
                                 CuboBlock(s, resp.views[k])]),
          rendered |-> \E k \in 1..Len(resp.views) :
                          ~NoRows(resp.views[k].rows)]

\* The full-cube handler after its await: on success the region is emptied
\* and then receives one block per view; a rejection leaves the handler
\* before it touches the region.
CuboCompleto(s, old, outcome, resp) ==
    IF outcome \in Failures
    THEN [html |-> old, rendered |-> FALSE]
    ELSE [html |-> SetInnerHTML(old, Blank)
                   \o Concat([k \in 1..Len(resp.views) |->
                                 CuboBlock(s, resp.views[k])]),
          rendered |-> \E k \in 1..Len(resp.views) :
                          ~NoRows(resp.views[k].rows)]

\* The parsed bodies the endpoint of handler h answers with.
ResponsesOf(h) == IF h = "cuboCompleto" THEN CuboResponses ELSE PageResponses

\* A handler that renders whatever came back, failure included.
HandlerResultRenderInCatch(s, h, old, outcome, resp) ==
    IF h = "cuboCompleto" THEN CuboCompleto(s, old, outcome, resp) ELSE
    LET r == RenderTable(ImplOf(s, h), resp.columns, resp.data)
    IN  [html |-> SetInnerHTML(old, r.html), rendered |-> TRUE]

\* The body of a handler after its await: the content it leaves in its
\* region, given the content `old` found there, and whether it called
\* renderTable.
HandlerResult(s, h, old, outcome, resp) ==
    IF h = "cuboCompleto" THEN CuboCompleto(s, old, outcome, resp)
    ELSE IF outcome \in Failures
    THEN [html |-> IF Catches(h) THEN ErrorPlaceholder(s, h) ELSE old,
          rendered |-> FALSE]
    ELSE IF h = "generarDice" /\ s # "actCubo" /\ NoRows(resp.data)
    THEN [html |-> SinDatosFiltros, rendered |-> FALSE]
    ELSE LET r == RenderTable(ImplOf(s, h), resp.columns, resp.data)
         IN  [html |-> IF r.threw
                       THEN IF Catches(h) THEN ErrorPlaceholder(s, h) ELSE old
                       ELSE SetInnerHTML(old, r.html),
              rendered |-> TRUE]

Pending(i) == requests[i].st = "pending"

NoParams == [dim_x |-> "", dim_y |-> "", metric |-> ""]

\* The requests the load itself issues, and whether the user's events may
\* issue n more.
LoadRequests == IF script = "actCubo" THEN 2 ELSE 1

CanIssue(n) == Len(requests) - LoadRequests + n <= MaxRequests

\* A request as issued by handler h.
NewRequest(h, url) ==
    [h |-> h, url |-> url, st |-> "pending", rendered |-> FALSE]

\* A request once its promise settled: "ok" when fetch and JSON parse both
\* succeeded, "failed" when either rejected.  Its parameters are of no
\* further use.
StatusOf(outcome) == IF outcome = "ok" THEN "ok" ELSE "failed"

Settled(req, outcome, rendered) ==
    [h |-> req.h, url |-> NoParams, st |-> StatusOf(outcome),
     rendered |-> rendered]

\* The latest activity of a region's handlers: nothing yet, a request issued
\* (phase "issued") or a request completed (phase "done", with its outcome
\* and parsed body, whether a request issued after it had completed before
\* it, and the completion that came just before, if one did).
NoPrevious == [id |-> 0, outcome |-> "none", resp |-> NoResponse]

NoActivity ==
    [id |-> 0, h |-> "none", phase |-> "none", outcome |-> "none",
     resp |-> NoResponse, overtaken |-> FALSE, prev |-> NoPrevious]

Issued(id, h) ==
    [id |-> id, h |-> h, phase |-> "issued", outcome |-> "none",
     resp |-> NoResponse, overtaken |-> FALSE, prev |-> NoPrevious]

CaraUrl(in) == [dim_x |-> in.dimx, dim_y |-> in.dimy, metric |-> in.metric]

InitPage ==
    /\ script \in Scripts
    /\ loaded = FALSE
    /\ dom = [r \in Regions |-> Blank]
    /\ inputs = [sel |-> "anio-region", dimx |-> "Año", dimy |-> "Región",
                 metric |-> "Ventas"]
    /\ requests = <<>>
    /\ last = [r \in Regions |-> NoActivity]
    /\ cuboReady = "idle"
    /\ cuboClick = "none"

Init ==
    /\ InitPage
    /\ impl = "actCubo"
    /\ el = Blank
    /\ prior = Blank
    /\ call = NoCall
    /\ ncalls = 0

\* The part of a handler before its await: the loading placeholder, if it
\* shows one, and the request.
Trigger(h, url) ==
    /\ dom' = IF HasLoading(h)
              THEN [dom EXCEPT ![RegionOf(h)] = SetInnerHTML(@, Loading(h))]
              ELSE dom
    /\ requests' = Append(requests, NewRequest(h, url))
    /\ last' = [last EXCEPT ![RegionOf(h)] = Issued(Len(requests) + 1, h)]

\* DOMContentLoaded: the slice section calls generarCara once; the pivot
\* section of actCubo fetches /api/opciones.
DOMContentLoaded ==
    /\ ~loaded
    /\ loaded' = TRUE
    /\ dom' = [dom EXCEPT !["cara-resultado"] =
                  SetInnerHTML(@, Loading("generarCara"))]
    /\ requests' = requests
          \o <<NewRequest("generarCara", CaraUrl(inputs))>>
          \o (IF script = "actCubo" THEN <<NewRequest("opciones", NoParams)>>
              ELSE <<>>)
    /\ last' = [last EXCEPT !["cara-resultado"] =
                   Issued(Len(requests) + 1, "generarCara")]
    /\ cuboReady' = IF script = "actCubo" THEN "loading" ELSE cuboReady
    /\ UNCHANGED <<script, inputs, cuboClick>>
    /\ UNCHANGED renderVars

\* The options of #cara-cubo the page specification picks among, and every
\* value the selector can take: the six faces and a value the handler does
\* not know.
CaraOptions == {"anio-canal", "anio-region"}

SelectorValues ==
    {"anio-region", "anio-canal", "producto-region", "producto-canal",
     "trimestre-region", "mes-region", "otra"}

Metrics == {"Ventas", "Cantidad"}

\* The (dim X, dim Y) pair the selector's change handler sets for option v.
DimsOf(v) ==
    CASE v = "anio-canal" -> <<"Año", "Canal">>
      [] v = "producto-region" -> <<"Producto", "Región">>
      [] v = "producto-canal" -> <<"Producto", "Canal">>
      [] v = "trimestre-region" -> <<"Trimestre", "Región">>
      [] v = "mes-region" -> <<"Mes", "Región">>
      [] OTHER -> <<"Año", "Región">>

\* A change handler that calls generarCara before it sets the two inputs.
CaraSelectChangeRequestFirst(v) ==
    /\ loaded /\ CanIssue(1)
    /\ inputs' = [inputs EXCEPT !.sel = v, !.dimx = DimsOf(v)[1],
                                !.dimy = DimsOf(v)[2]]
    /\ Trigger("generarCara", CaraUrl(inputs))
    /\ UNCHANGED <<script, loaded, cuboReady, cuboClick>>
    /\ UNCHANGED renderVars

\* change of #cara-cubo to option v
CaraSelectChange(v) ==
    /\ loaded /\ CanIssue(1)
    /\ inputs' = [inputs EXCEPT !.sel = v, !.dimx = DimsOf(v)[1],
                                !.dimy = DimsOf(v)[2]]
    /\ Trigger("generarCara", CaraUrl(inputs'))
    /\ UNCHANGED <<script, loaded, cuboReady, cuboClick>>
    /\ UNCHANGED renderVars

\* change of #cara-metric to m
MetricChange(m) ==
    /\ loaded /\ CanIssue(1)
    /\ m # inputs.metric
    /\ inputs' = [inputs EXCEPT !.metric = m]
    /\ Trigger("generarCara", CaraUrl(inputs'))
    /\ UNCHANGED <<script, loaded, cuboReady, cuboClick>>
    /\ UNCHANGED renderVars

\* click of #btn-dice
ClickDice ==
    /\ loaded /\ CanIssue(1)
    /\ Trigger("generarDice", NoParams)
    /\ UNCHANGED <<script, loaded, inputs, cuboReady, cuboClick>>
    /\ UNCHANGED renderVars

\* click of #btn-cubo in actCubo, once its listener is registered
ClickCubo ==
    /\ script = "actCubo" /\ cuboReady = "ready"
    /\ loaded /\ CanIssue(1)
    /\ Trigger("generarCubo", NoParams)
    /\ UNCHANGED <<script, loaded, inputs, cuboReady, cuboClick>>
    /\ UNCHANGED renderVars

\* click of #btn-cubo in actCubo before its listener is registered: the
\* button has no listener and nothing runs.
ClickCuboUnregistered ==
    /\ script = "actCubo" /\ cuboReady # "ready"
    /\ loaded
    /\ cuboClick' = "ignored"
    /\ UNCHANGED <<script, loaded, dom, inputs, requests, last, cuboReady>>
    /\ UNCHANGED renderVars

\* click of #btn-celda: funciones registers the listener twice, so one
\* click there issues two requests.
ClickCelda ==
    /\ loaded /\ CanIssue(IF script = "funciones" THEN 2 ELSE 1)
    /\ requests' = requests \o <<NewRequest("celda", NoParams)>>
          \o (IF script = "funciones" THEN <<NewRequest("celda", NoParams)>>
              ELSE <<>>)
    /\ last' = [last EXCEPT !["celda-resultado"] =
                   Issued(Len(requests'), "celda")]
    /\ UNCHANGED <<script, loaded, dom, inputs, cuboReady, cuboClick>>
    /\ UNCHANGED renderVars

\* click of #btn-cara (funciones)
ClickCara ==
    /\ script = "funciones"
    /\ loaded /\ CanIssue(1)
    /\ Trigger("caraClick", CaraUrl(inputs))
    /\ UNCHANGED <<script, loaded, inputs, cuboReady, cuboClick>>
    /\ UNCHANGED renderVars

\* click of #btn-seccion (funciones)
ClickSeccion ==
    /\ script = "funciones"
    /\ loaded /\ CanIssue(1)
    /\ Trigger("seccion", NoParams)
    /\ UNCHANGED <<script, loaded, inputs, cuboReady, cuboClick>>
    /\ UNCHANGED renderVars

\* click of #btn-cubo in funciones and part_000: the full cube.  funciones
\* registers the listener twice, so one click there issues two requests.
ClickCuboCompleto ==
    /\ script # "actCubo"
    /\ loaded /\ CanIssue(IF script = "funciones" THEN 2 ELSE 1)
    /\ requests' = requests \o <<NewRequest("cuboCompleto", NoParams)>>
          \o (IF script = "funciones"
              THEN <<NewRequest("cuboCompleto", NoParams)>> ELSE <<>>)
    /\ last' = [last EXCEPT !["cubo-resultado"] =
                   Issued(Len(requests'), "cuboCompleto")]
    /\ UNCHANGED <<script, loaded, dom, inputs, cuboReady, cuboClick>>
    /\ UNCHANGED renderVars

\* A completion that is dropped when a newer request of the region exists.
DomAfterLatestOnly(i, outcome, resp) ==
    LET h == requests[i].h
    IN  IF \E j \in (i + 1)..Len(requests) :
               RegionOf(requests[j].h) = RegionOf(h)
        THEN dom
        ELSE [dom EXCEPT ![RegionOf(h)] =
                  HandlerResult(script, h, @, outcome, resp).html]

\* The display regions after request i completed with `outcome`: every
\* completion is applied, whatever was issued or completed meanwhile.
DomAfter(i, outcome, resp) ==
    LET h == requests[i].h
    IN  [dom EXCEPT ![RegionOf(h)] =
             HandlerResult(script, h, @, outcome, resp).html]

\* Request i of a region's handler completes: the handler resumes after its
\* await.
Complete(i, outcome, resp) ==
    /\ Pending(i)
    /\ requests[i].h # "opciones"
    /\ outcome \in Failures => resp = NoResponse
    /\ outcome = "ok" => resp \in ResponsesOf(requests[i].h)
    /\ dom' = DomAfter(i, outcome, resp)
    /\ requests' = [requests EXCEPT ![i] =
          Settled(@, outcome,
                  HandlerResult(script, requests[i].h,
                      dom[RegionOf(requests[i].h)], outcome, resp).rendered)]
    /\ last' = [last EXCEPT ![RegionOf(requests[i].h)] =
          [id |-> i, h |-> requests[i].h, phase |-> "done",
           outcome |-> StatusOf(outcome), resp |-> resp,
           overtaken |-> \E j \in (i + 1)..Len(requests) :
                            /\ RegionOf(requests[j].h) = RegionOf(requests[i].h)
                            /\ ~Pending(j),
           prev |-> LET l == last[RegionOf(requests[i].h)]
                    IN  IF l.phase = "done"
                        THEN [id |-> l.id, outcome |-> l.outcome,
                              resp |-> l.resp]
                        ELSE NoPrevious]]
    /\ UNCHANGED <<script, loaded, inputs, cuboReady, cuboClick>>
    /\ UNCHANGED renderVars

\* An /api/opciones completion that registers the listener whatever came
\* back.
CompleteOpcionesRegistersAnyway(i, outcome) ==
    /\ Pending(i)
    /\ requests[i].h = "opciones"
    /\ cuboReady' = "ready"
    /\ requests' = [requests EXCEPT ![i] = Settled(@, outcome, FALSE)]
    /\ UNCHANGED <<script, loaded, dom, inputs, last, cuboClick>>
    /\ UNCHANGED renderVars

\* The /api/opciones request of actCubo completes: on success the selectors
\* are filled and the click listener of #btn-cubo is registered; on failure
\* the async listener rejects before it registers anything.
CompleteOpciones(i, outcome) ==
    /\ Pending(i)
    /\ requests[i].h = "opciones"
    /\ cuboReady' = IF outcome = "ok" THEN "ready" ELSE "failed"
    /\ requests' = [requests EXCEPT ![i] = Settled(@, outcome, FALSE)]
    /\ UNCHANGED <<script, loaded, dom, inputs, last, cuboClick>>
    /\ UNCHANGED renderVars

Next ==
    \/ DOMContentLoaded
    \/ \E v \in CaraOptions : CaraSelectChange(v)
    \/ \E m \in Metrics : MetricChange(m)
    \/ ClickDice
    \/ ClickCubo
    \/ ClickCelda
    \/ ClickCara
    \/ ClickSeccion
    \/ \E i \in 1..Len(requests) :
          \E outcome \in Failures \cup {"ok"},
             resp \in PageResponses \cup {NoResponse} :
              Complete(i, outcome, resp)
    \/ \E i \in 1..Len(requests), outcome \in Failures \cup {"ok"} :
          CompleteOpciones(i, outcome)

Spec == Init /\ [][Next]_vars

\* The pivot section of actCubo, clicks that find no listener included,
\* next to the dice button.
NextPivot ==
    \/ DOMContentLoaded
    \/ ClickCubo
    \/ ClickCuboUnregistered
    \/ ClickDice
    \/ \E i \in 1..Len(requests) :
          \E outcome \in Failures \cup {"ok"},
             resp \in PageResponses \cup {NoResponse} :
              Complete(i, outcome, resp)
    \/ \E i \in 1..Len(requests), outcome \in Failures \cup {"ok"} :
          CompleteOpciones(i, outcome)

SpecPivot == Init /\ [][NextPivot]_vars

\* The buttons of the first version of the script that funciones and
\* part_000 keep: the full cube and the cell drill-down.
NextCubo ==
    \/ DOMContentLoaded
    \/ ClickCuboCompleto
    \/ ClickCelda
    \/ \E i \in 1..Len(requests) :
          \E outcome \in Failures \cup {"ok"},
             resp \in PageResponses \cup CuboResponses \cup {NoResponse} :
              Complete(i, outcome, resp)

SpecCubo == Init /\ [][NextCubo]_vars

\* The slice section alone, its selector ranging over every value.
NextSlice ==
    \/ DOMContentLoaded
    \/ \E v \in SelectorValues : CaraSelectChange(v)
    \/ \E m \in Metrics : MetricChange(m)
    \/ ClickCara
    \/ \E i \in 1..Len(requests) :
          \E outcome \in Failures \cup {"ok"},
             resp \in PageResponses \cup {NoResponse} :
              Complete(i, outcome, resp)

SpecSlice == Init /\ [][NextSlice]_vars

\* The slice and dice sections under the proviso that every request issued
\* is answered or fails: while a request is pending, completions are not
\* put off for ever.
CompleteSome(i) ==
    /\ i \in 1..Len(requests)
    /\ \E outcome \in Failures \cup {"ok"},
          resp \in PageResponses \cup {NoResponse} :
           Complete(i, outcome, resp)

NextSliceDice ==
    \/ DOMContentLoaded
    \/ CaraSelectChange("anio-canal")
    \/ \E m \in Metrics : MetricChange(m)
    \/ ClickDice
    \/ ClickCara
    \/ \E i \in 1..Len(requests) : CompleteSome(i)

FairSliceDice ==
    /\ Init /\ [][NextSliceDice]_vars
    /\ WF_vars(\E i \in 1..Len(requests) : CompleteSome(i))

-----------------------------------------------------------------------------
(* Reading a target back: the cells of the markup it holds *)

HasTable(m) == \E i \in 1..Len(m) : m[i] = "<table>"

\* The tokens strictly between the first `open` and the next `close`.
RECURSIVE UpTo(_, _)
UpTo(m, close) ==
    IF m = <<>> \/ Head(m) = close THEN <<>>
    ELSE <<Head(m)>> \o UpTo(Tail(m), close)

RECURSIVE Between(_, _, _)
Between(m, open, close) ==
    IF m = <<>> THEN <<>>
    ELSE IF Head(m) = open THEN UpTo(Tail(m), close)
    ELSE Between(Tail(m), open, close)

\* The text of every cell opened by `open`, in document order; an element
\* closed at once has the empty text.
RECURSIVE CellTexts(_, _, _)
CellTexts(m, open, close) ==
    IF m = <<>> THEN <<>>
    ELSE IF Head(m) = open
         THEN <<IF Len(m) >= 2 /\ m[2] # close THEN m[2] ELSE "">>
              \o CellTexts(Tail(m), open, close)
         ELSE CellTexts(Tail(m), open, close)

\* The token runs of the <tr> elements of m, in document order.
RECURSIVE TableRows(_)
TableRows(m) ==
    IF m = <<>> THEN <<>>
    ELSE IF Head(m) = "<tr>"
         THEN <<UpTo(Tail(m), "</tr>")>> \o TableRows(Tail(m))
         ELSE TableRows(Tail(m))

HeadTexts(m) ==
    CellTexts(Between(m, "<thead>", "</thead>"), "<th>", "</th>")

BodyTexts(m) ==
    LET rs == TableRows(Between(m, "<tbody>", "</tbody>"))
    IN  [r \in 1..Len(rs) |-> CellTexts(rs[r], "<td>", "</td>")]

\* rows is an array with at least one record.
RowsGiven(rows) == rows.t = "array" /\ rows.items # <<>>

\* rows is null, undefined or an empty array.
RowsMissing(rows) ==
    rows.t \in {"null", "undefined"} \/ (rows.t = "array" /\ rows.items = <<>>)

\* The value a record stores under key c, undefined when it stores none.
ValueAt(row, c) == IF c \in DOMAIN row THEN row[c] ELSE Undefined

\* The latest call rendered a table: rows were given and columns iterable.
RenderedTable ==
    /\ ncalls > 0
    /\ RowsGiven(call.rows)
    /\ call.columns.t = "array"

Cols == call.columns.items
Rows == call.rows.items

-----------------------------------------------------------------------------
(* Claims about renderTable *)

\* C1: whenever rows is null, undefined or an empty array, the target holds
\* exactly the "Sin datos" placeholder afterwards and no table, whatever
\* columns is and whatever the target showed before.
C1_NoDataPlaceholder ==
    (ncalls > 0 /\ RowsMissing(call.rows)) =>
        /\ el = <<"<em>", "Sin datos", "</em>">>
        /\ ~HasTable(el)

C1_Witness ==
    /\ ncalls = 1
    /\ call.rows.t = "array" /\ call.rows.items = <<>>
    /\ call.columns.t = "undefined"
    /\ HasTable(prior)
    /\ el = SinDatos

\* The decimal numeral of m/1000 with the fractional part discarded.
TruncatedText(m) ==
    LET q == Abs(m) \div 1000
    IN  IF m < 0 /\ q > 0 THEN "-" \o ToString(q) ELSE ToString(q)

\* C2: in every renderTable of the repository, a numeric value in a column
\* whose lower-cased name is año, cantidad or trimestre renders as the value
\* truncated to an integer.
C2_IntegerColumnsTruncated ==
    RenderedTable =>
        \A r \in 1..Len(Rows), k \in 1..Len(Cols) :
            LET v == ValueAt(Rows[r], Cols[k])
            IN  (v.t = "number"
                 /\ Cols[k] \in {"Año", "AÑO", "Cantidad", "Trimestre",
                                 "TRIMESTRE"})
                => BodyTexts(el)[r][k] = TruncatedText(v.m)

\* s is a numeral with exactly two digits after the point that is nearest
\* to m/1000.
IsFixed2Of(s, m) ==
    \E i \in {Abs(m) \div 1000, Abs(m) \div 1000 + 1}, d1 \in 0..9, d2 \in 0..9 :
        /\ s = (IF m < 0 THEN "-" ELSE "") \o ToString(i) \o "."
                   \o ToString(d1) \o ToString(d2)
        /\ Abs(10 * (100 * i + 10 * d1 + d2) - Abs(m)) <= 5

C4_NullishCellsEmpty ==
    RenderedTable =>
        \A r \in 1..Len(Rows), k \in 1..Len(Cols) :
            ValueAt(Rows[r], Cols[k]).t \in {"null", "undefined"}
                => BodyTexts(el)[r][k] = ""

\* C5: with non-empty rows the output has one header cell per entry of
\* columns, in order and with the name as its text, and one table row per
\* input row, in order, each with one cell per entry of columns in order.
C5_ShapeAndOrder ==
    RenderedTable =>
        /\ HeadTexts(el) = Cols
        /\ Len(TableRows(Between(el, "<thead>", "</thead>"))) = 1
        /\ Len(BodyTexts(el)) = Len(Rows)
        /\ \A r \in 1..Len(Rows) :
              /\ Len(BodyTexts(el)[r]) = Len(Cols)
              /\ \A k \in 1..Len(Cols) :
                    BodyTexts(el)[r][k] = Cell(impl, Cols[k], Rows[r])

C5_Witness ==
    /\ RenderedTable
    /\ Len(Rows) = 2 /\ Rows[1] # Rows[2]
    /\ Len(Cols) = 2 /\ Cols[1] # Cols[2]
    /\ BodyTexts(el)[1] # BodyTexts(el)[2]
    /\ BodyTexts(el)[1][1] # BodyTexts(el)[1][2]
    /\ HasTable(prior)

\* C7: the table depends only on the values stored under the declared
\* columns: any rows that agree with the rendered ones on every declared
\* column render to the same content, whatever other keys they carry, and
\* rows with different key sets render without error.
AgreeOn(cs, rs1, rs2) ==
    /\ Len(rs1) = Len(rs2)
    /\ \A r \in 1..Len(rs1), k \in 1..Len(cs) :
          ValueAt(rs1[r], cs[k]) = ValueAt(rs2[r], cs[k])

C7_OnlyDeclaredColumnsRead ==
    RenderedTable =>
        \A other \in RowArgs :
            (other.t = "array" /\ AgreeOn(Cols, Rows, other.items)) =>
                LET o == RenderTable(impl, call.columns, other)
                IN  ~o.threw /\ SetInnerHTML(prior, o.html) = el

C7_Witness ==
    /\ RenderedTable
    /\ Len(Cols) > 0
    /\ Len(Rows) = 2 /\ DOMAIN Rows[1] # DOMAIN Rows[2]
    /\ \E other \in RowArgs :
          /\ other.t = "array" /\ other # call.rows
          /\ AgreeOn(Cols, Rows, other.items)
          /\ \E r \in 1..Len(Rows) : DOMAIN other.items[r] # DOMAIN Rows[r]
    /\ HasTable(el)

\* C6: after any sequence of calls on one target, the target holds what the
\* last call alone produces on a blank target; nothing of an earlier call
\* survives, and rendering the same arguments again changes nothing.
C6_LastCallReplaces ==
    (ncalls > 0 /\ (RowsMissing(call.rows) \/ call.columns.t = "array")) =>
        /\ el = RenderTable(impl, call.columns, call.rows).html
        /\ RowsMissing(call.rows) => ~HasTable(el)
        /\ RowsGiven(call.rows) =>
              /\ Len(BodyTexts(el)) = Len(Rows)
              /\ HeadTexts(el) = Cols

C6_Witness ==
    /\ ncalls = MaxCalls
    /\ RenderedTable
    /\ HasTable(prior)
    /\ Len(BodyTexts(prior)) > Len(BodyTexts(el))
    /\ HeadTexts(prior) # HeadTexts(el)

-----------------------------------------------------------------------------
(* Claims about the request handlers *)

IsErrorPlaceholder(m) ==
    m \in {Em("Error al cargar"), Em("Error al cargar datos")}

\* C8: for every request handler, when the fetch rejects or the body fails
\* to parse, the handler's region ends up showing the "Error al cargar"
\* placeholder, never the loading placeholder or the previous table.
C8_FailureShowsError ==
    \A r \in Regions :
        (last[r].phase = "done" /\ last[r].outcome = "failed")
            => IsErrorPlaceholder(dom[r])

\* C9: renderTable is called for a request only after its fetch and JSON
\* parse both succeeded, and the completion of a failed request puts a
\* table in no region.
C9_RenderOnlyOnSuccess ==
    [][ /\ \A i \in 1..Len(requests') :
              requests'[i].rendered => requests'[i].st = "ok"
        /\ \A i \in 1..Len(requests) :
              (Pending(i) /\ requests'[i].st = "failed") =>
                  \A r \in Regions :
                      HasTable(dom'[r]) => dom'[r] = dom[r] ]_vars

C9_Witness ==
    /\ \E i \in 1..Len(requests) :
          /\ requests[i].h # "opciones"
          /\ requests[i].st = "failed" /\ ~requests[i].rendered
          /\ ~HasTable(dom[RegionOf(requests[i].h)])
          /\ last[RegionOf(requests[i].h)].id = i
    /\ \E j \in 1..Len(requests) :
          /\ requests[j].st = "ok" /\ requests[j].rendered
          /\ HasTable(dom[RegionOf(requests[j].h)])

\* What a handler shows for a parsed body.
ShownFor(h, resp) ==
    IF h = "cuboCompleto"
    THEN CuboCompleto(script, Blank, "ok", resp).html
    ELSE IF RowsMissing(resp.data)
    THEN IF h = "generarDice" /\ script # "actCubo" THEN SinDatosFiltros
         ELSE SinDatos
    ELSE TableMarkup(ImplOf(script, h), resp.columns.items, resp.data.items)

\* C10: requests for one region are not ordered: when a request issued
\* earlier delivers its response after one issued later has completed, the
\* region shows the response that completed last, not the one of the
\* request issued last.
C10_LastCompletionWins ==
    \A r \in Regions :
        (last[r].phase = "done" /\ last[r].outcome = "ok" /\ last[r].overtaken)
            => /\ dom[r] = ShownFor(last[r].h, last[r].resp)
               /\ (/\ last[r].prev.id > last[r].id
                   /\ last[r].prev.outcome = "ok"
                   /\ last[r].prev.resp # last[r].resp)
                  => dom[r] # ShownFor(last[r].h, last[r].prev.resp)

C10_Witness ==
    \E r \in Regions :
        /\ last[r].phase = "done" /\ last[r].outcome = "ok"
        /\ last[r].overtaken
        /\ last[r].prev.id > last[r].id
        /\ last[r].prev.outcome = "ok"
        /\ last[r].prev.resp # last[r].resp
        /\ HasTable(dom[r])
        /\ last[r].h = "generarCubo"
        /\ \A i \in 1..Len(requests) :
              RegionOf(requests[i].h) = r => ~Pending(i)

-----------------------------------------------------------------------------
(* Claims about interactions, regions and the sections of the page *)

\* C11: each user interaction triggers exactly one network request: no
\* single click or change event issues two requests, in any script.  (The
\* load itself is left aside: in actCubo its two requests belong to the
\* listeners of two sections.)
C11_OneRequestPerInteraction ==
    [][ (loaded /\ Len(requests') > Len(requests))
            => Len(requests') = Len(requests) + 1 ]_vars

\* The completion of a request changes the region of its handler and
\* nothing else: every other region and every form input keep their values.
C12_CompletionFrame ==
    [][ \A i \in 1..Len(requests) :
            (Pending(i) /\ requests'[i].st # "pending") =>
                /\ inputs' = inputs
                /\ \A r \in Regions \ {RegionOf(requests[i].h)} :
                       dom'[r] = dom[r] ]_vars

\* C12: each display region is written by exactly one handler (any two
\* requests whose completion wrote the same region came from the same
\* handler), and the completion of a request changes only that handler's
\* region, leaving the other regions and the form inputs unchanged.
C12_RegionOwnedByOneHandler ==
    /\ [](\A i, j \in 1..Len(requests) :
            (/\ requests[i].st = "ok" /\ requests[j].st = "ok"
             /\ RegionOf(requests[i].h) = RegionOf(requests[j].h))
                => requests[i].h = requests[j].h)
    /\ C12_CompletionFrame

\* The title texts of the blocks of m, and the token runs of its tables, in
\* document order.
RECURSIVE TitleTexts(_)
TitleTexts(m) ==
    IF Len(m) < 3 THEN <<>>
    ELSE IF m[1] = "<div>" /\ m[2] = "<div>"
         THEN <<m[3]>> \o TitleTexts(Tail(m))
         ELSE TitleTexts(Tail(m))

RECURSIVE Tables(_)
Tables(m) ==
    IF m = <<>> THEN <<>>
    ELSE IF Head(m) = "<table>"
         THEN <<UpTo(Tail(m), "</table>")>> \o Tables(Tail(m))
         ELSE Tables(Tail(m))

\* The views of a parsed /api/cubo body that have at least one row.
ViewsWithRows(resp) == SelectSeq(resp.views, LAMBDA v : RowsGiven(v.rows))

\* C13: when a full-cube response has been processed, the cube region holds
\* exactly one titled block per view with at least one row, in the order of
\* the mapping, and nothing of an earlier response; views whose rows are
\* null or empty contribute nothing; the columns of a block's table are the
\* keys of the view's first row in their order, every row has one cell per
\* such key, a key a later row lacks gives an empty cell and a key only a
\* later row has is not shown.
C13_FullCubeBlocks ==
    LET l == last["cubo-resultado"]
        m == dom["cubo-resultado"]
    IN  (l.phase = "done" /\ l.h = "cuboCompleto" /\ l.outcome = "ok") =>
        LET vs == ViewsWithRows(l.resp)
            ts == Tables(m)
        IN  /\ TitleTexts(m) = [k \in 1..Len(vs) |-> vs[k].label]
            /\ Len(ts) = Len(vs)
            /\ \A k \in 1..Len(vs) :
                  LET keys == vs[k].rows.items[1].keys
                      body == BodyTexts(ts[k])
                  IN  /\ HeadTexts(ts[k]) = keys
                      /\ Len(body) = Len(vs[k].rows.items)
                      /\ \A r \in 1..Len(body) :
                            /\ Len(body[r]) = Len(keys)
                            /\ \A c \in 1..Len(keys) :
                                  LET v == ValueAt(vs[k].rows.items[r].vals,
                                                   keys[c])
                                  IN  /\ v.t = "undefined" => body[r][c] = ""
                                      /\ v.t = "string" => body[r][c] = v.s
                                      /\ v.t = "number" => body[r][c] # ""

\* A response with one block has replaced one with two, and its view has a
\* second row that lacks a key of the first and has a key of its own.
C13_Witness ==
    LET l == last["cubo-resultado"]
    IN  /\ l.phase = "done" /\ l.h = "cuboCompleto" /\ l.outcome = "ok"
        /\ l.prev.outcome = "ok"
        /\ Len(ViewsWithRows(l.prev.resp)) = 2
        /\ Len(ViewsWithRows(l.resp)) = 1
        /\ Len(l.resp.views) = 3
        /\ Len(TitleTexts(dom["cubo-resultado"])) = 1
        /\ \E r \in 1..Len(BodyTexts(dom["cubo-resultado"])) :
              BodyTexts(dom["cubo-resultado"])[r][2] = ""

\* C14: in the pivot section of actCubo the click listener of #btn-cubo is
\* registered only once /api/opciones has answered: a generarCubo request
\* exists only after that answer arrived intact, a click before it issues
\* no request and changes nothing on the page, and after a failed
\* /api/opciones the button never gets its listener.
C14_PivotListenerAfterOpciones ==
    [][ /\ (\E i \in 1..Len(requests') : requests'[i].h = "generarCubo")
              => /\ cuboReady = "ready"
                 /\ \E j \in 1..Len(requests) :
                       requests[j].h = "opciones" /\ requests[j].st = "ok"
        /\ (cuboReady # "ready" /\ cuboClick' # cuboClick)
              => /\ cuboClick' = "ignored"
                 /\ <<dom, inputs, requests, last, cuboReady>>' =
                       <<dom, inputs, requests, last, cuboReady>>
        /\ cuboReady = "failed" => cuboReady' = "failed" ]_vars

\* /api/opciones failed, the button was clicked to no effect, and the page
\* went on issuing its other requests.
C14_Witness ==
    /\ script = "actCubo"
    /\ cuboReady = "failed" /\ cuboClick = "ignored"
    /\ Len(requests) > LoadRequests
    /\ \A i \in 1..Len(requests) : requests[i].h # "generarCubo"

\* The pair the face selector's table gives for option v.
FacePair(v) ==
    CASE v = "anio-canal" -> [x |-> "Año", y |-> "Canal"]
      [] v = "producto-region" -> [x |-> "Producto", y |-> "Región"]
      [] v = "producto-canal" -> [x |-> "Producto", y |-> "Canal"]
      [] v = "trimestre-region" -> [x |-> "Trimestre", y |-> "Región"]
      [] v = "mes-region" -> [x |-> "Mes", y |-> "Región"]
      [] OTHER -> [x |-> "Año", y |-> "Región"]

\* C15: a change of the face selector sets (dim X, dim Y) from the fixed
\* table before the request is issued: the one request the change triggers
\* carries the pair of the option just selected and the metric selected at
\* that moment, and the change leaves the metric untouched.
C15_FaceSelectorSetsPair ==
    [][ inputs'.sel # inputs.sel =>
          /\ inputs'.dimx = FacePair(inputs'.sel).x
          /\ inputs'.dimy = FacePair(inputs'.sel).y
          /\ inputs'.metric = inputs.metric
          /\ Len(requests') = Len(requests) + 1
          /\ requests'[Len(requests')].h = "generarCara"
          /\ requests'[Len(requests')].url =
                [dim_x |-> FacePair(inputs'.sel).x,
                 dim_y |-> FacePair(inputs'.sel).y,
                 metric |-> inputs.metric] ]_vars

\* After a change of metric the selector went to mes-region, and the
\* request of that change is in flight with Mes/Región and the new metric.
C15_Witness ==
    /\ inputs.sel = "mes-region" /\ inputs.metric = "Cantidad"
    /\ Len(requests) > 0
    /\ requests[Len(requests)].h = "generarCara"
    /\ requests[Len(requests)].st = "pending"
    /\ requests[Len(requests)].url =
          [dim_x |-> "Mes", dim_y |-> "Región", metric |-> "Cantidad"]

\* The regions of the slice and dice handlers and what they may show.
SliceDiceRegions == {"cara-resultado", "dice-resultado"}

ShowsLoading(r) ==
    dom[r] \in {Em("Cargando..."), Em("Cargando sección del cubo...")}

ShowsResult(r) ==
    \/ HasTable(dom[r])
    \/ dom[r] \in {Em("Sin datos"),
                    Em("Sin datos para los filtros seleccionados")}
    \/ IsErrorPlaceholder(dom[r])

InFlight(r) ==
    \E i \in 1..Len(requests) : RegionOf(requests[i].h) = r /\ Pending(i)

\* C16: every trigger of generarCara or generarDice puts the loading
\* placeholder in the region at once; provided every request issued
\* eventually completes, a region showing the loading placeholder comes to
\* show a table, a no-data placeholder or the error placeholder; and a
\* region with no request in flight never shows the loading placeholder.
C16_LoadingThenResult ==
    /\ [][ \A i \in 1..Len(requests') :
              (i > Len(requests)
               /\ requests'[i].h \in {"generarCara", "generarDice"})
                  => dom'[RegionOf(requests'[i].h)] \in
                         {Em("Cargando..."),
                          Em("Cargando sección del cubo...")} ]_vars
    /\ \A r \in SliceDiceRegions : ShowsLoading(r) ~> ShowsResult(r)
    /\ [](\A r \in SliceDiceRegions : ~InFlight(r) => ~ShowsLoading(r))

\* A dice request failed and one slice request overtook another: both
\* regions are at rest, one with the error placeholder, one with a table.
C16_Witness ==
    /\ ~InFlight("dice-resultado") /\ ~InFlight("cara-resultado")
    /\ last["dice-resultado"].outcome = "failed"
    /\ IsErrorPlaceholder(dom["dice-resultado"])
    /\ last["cara-resultado"].h = "generarCara"
    /\ last["cara-resultado"].overtaken
    /\ HasTable(dom["cara-resultado"])

====
